---- MODULE Spec2Model ----
(***************************************************************************)
(* A model of the graphics crate: the Ppm framebuffer with its builder     *)
(* (src/src/ppm.rs), the Screen trait's line entry points                  *)
(* (src/src/screen.rs) and the Turtle (src/src/turtle.rs).                 *)
(*                                                                         *)
(* Rust vectors are 0-based; a vector v is the sequence with v[i] at       *)
(* position i + 1.  f64 depth values are records [k, v]: k is the IEEE     *)
(* class ("ninf", "fin", "pinf", "nan") and v the value of a finite one;   *)
(* the buffer is only ever plotted with finite depths here.                *)
(* A panic is the absorbing control state pc = "panic": the operation that *)
(* panicked has made no further assignment.                                *)
(* A byte stream (what a writer received, what a file holds) is a sequence *)
(* of numbers 0 .. 255.                                                    *)
(***************************************************************************)
EXTENDS Integers, Sequences, FiniteSets

\* ------------------------------------------------------------------ bounds
\* Largest number of cells (width * height) of a buffer.
MaxCells == 2
\* Longest pixel vector handed to with_data.
MaxData == 2
\* Turtle and line coordinates are -MaxPos .. MaxPos.
MaxPos == 1
\* A forward() call moves 1 .. MaxSteps.
MaxSteps == 1
\* Turns are by -MaxQuarter .. MaxQuarter quarter turns.
MaxQuarter == 2
\* i64 is a two's-complement integer; where its overflow is reached the
\* model gives it IntBits bits instead of 64.
IntBits == 5

\* ------------------------------------------------------------------ values
BLACK == [red |-> 0, green |-> 0, blue |-> 0]
WHITE == [red |-> 255, green |-> 255, blue |-> 255]
Colors == {BLACK, WHITE}

NEG_INFINITY == [k |-> "ninf", v |-> 0]
Fin(n) == [k |-> "fin", v |-> n]
\* The depth values plotted with: two finite ones, so that a plot can be
\* below, equal to and above a stored depth.
ZVals == {Fin(0), Fin(1)}

\* a < b on f64: false when either side is NaN.
FLt(a, b) ==
    CASE a.k = "nan" \/ b.k = "nan" -> FALSE
      [] a.k = "ninf" -> b.k # "ninf"
      [] a.k = "pinf" -> FALSE
      [] OTHER -> \/ b.k = "pinf"
                  \/ (b.k = "fin" /\ a.v < b.v)

\* Rust's % on i64: the remainder has the sign of the dividend.
TruncRem(a, b) == IF a >= 0 THEN a % b ELSE 0 - ((0 - a) % b)

\* vec![e; n]
Repeat(e, n) == [i \in 1..n |-> e]

Dims == {d \in (1..MaxCells) \X (1..MaxCells) : d[1] * d[2] <= MaxCells}
ColorDepths == {255}

None == [some |-> FALSE, v |-> 0]
Some(i) == [some |-> TRUE, v |-> i]

NoBuilder == [height |-> 0, width |-> 0, color_depth |-> 0, data |-> <<>>,
              bg_color |-> BLACK, wrap_x |-> FALSE, wrap_y |-> FALSE,
              invert_y |-> FALSE]
NoImg == [height |-> 0, width |-> 0, color_depth |-> 0, wrap_x |-> FALSE,
          wrap_y |-> FALSE, invert_y |-> FALSE, data |-> <<>>, zbuf |-> <<>>]
NoTurtle == [x |-> 0, y |-> 0, direction |-> 0, pen_down |-> FALSE,
             fg_color |-> BLACK]

VARIABLES
    pc,       \* "builder", "ppm", "turtle" or "panic": who owns the buffer
    builder,  \* the PpmBuilder, NoBuilder once build() has consumed it
    img,      \* the Ppm, NoImg before build()
    turtle,   \* the Turtle that owns img while pc = "turtle"
    call,     \* the last call made: its name, arguments and what it did
    given,    \* the last argument each builder setter was called with
    best,     \* per depth entry, the greatest z plotted there and its colour
    out,      \* the bytes the last writer call delivered
    ret,      \* what the last call returned
    world     \* tmp.ppm and the outcome of each step of the last save/display

vars == <<pc, builder, img, turtle, call, given, best, out, ret, world>>

\* What the caller has passed to the builder: the arguments of new and the
\* last argument of each setter.  Before any call no size is given, no option
\* is set (an option then stands at its documented default) and no pixel
\* vector is supplied.
NoGiven == [height |-> 0, width |-> 0, color_depth |-> 0,
            wrap_x |-> FALSE, wrap_y |-> FALSE, invert_y |-> TRUE,
            bg_color |-> BLACK, has_data |-> FALSE, data |-> <<>>]

\* What a call returned: nothing yet, (), Ok(()), Err(_) or a number.
NoRet == [kind |-> "none", v |-> 0]
Ok == [kind |-> "ok", v |-> 0]
Err == [kind |-> "err", v |-> 0]
Val(n) == [kind |-> "val", v |-> n]

\* The file tmp.ppm (present or not) and, for the last save or display, how
\* each of its steps ended: "none" (not reached), "ok" or "fail"; code is the
\* exit code of the external tool once it has been waited for.
NoWorld == [tmp |-> FALSE, create |-> "none", write |-> "none",
            spawn |-> "none", wait |-> "none", code |-> 0, remove |-> "none"]

\* The plots a buffer p has seen since it was built or cleared: none.
BestOf(p) == [z |-> Repeat(NEG_INFINITY, Len(p.zbuf)),
              color |-> p.data]
NoBest == [z |-> <<>>, color |-> <<>>]

\* The record of a call.  (x, y) is its point (or its first point, or its
\* number of steps or its angle in x), (x1, y1) its second point, idx what
\* Ppm::index returned inside plot, nplot the number of plot calls the
\* operation issued.
Call(op, x, y, z, color, idx, nplot) ==
    [op |-> op, x |-> x, y |-> y, x1 |-> 0, y1 |-> 0, z |-> z,
     color |-> color, idx |-> idx, nplot |-> nplot]
LineCall(op, p0, p1, color, nplot) ==
    [op |-> op, x |-> p0[1], y |-> p0[2], x1 |-> p1[1], y1 |-> p1[2],
     z |-> Fin(0), color |-> color, idx |-> None, nplot |-> nplot]
Called(op) == Call(op, 0, 0, NEG_INFINITY, BLACK, None, 0)

\* ------------------------------------------------------------ PpmBuilder
DEFAULT_BG_COLOR == BLACK

PpmBuilder_new(h, w, cd) ==
    [height |-> h, width |-> w, color_depth |-> cd, data |-> <<>>,
     bg_color |-> DEFAULT_BG_COLOR, wrap_x |-> FALSE, wrap_y |-> FALSE,
     invert_y |-> TRUE]

\* build that fills with the default colour whatever bg_color was set.
build_default_bg(b) ==
    [height |-> b.height, width |-> b.width, color_depth |-> b.color_depth,
     wrap_x |-> b.wrap_x, wrap_y |-> b.wrap_y, invert_y |-> b.invert_y,
     data |-> IF Len(b.data) = 0
              THEN Repeat(DEFAULT_BG_COLOR, b.width * b.height)
              ELSE b.data,
     zbuf |-> Repeat(NEG_INFINITY, b.width * b.height)]

\* PpmBuilder::build
build(b) ==
    [height |-> b.height, width |-> b.width, color_depth |-> b.color_depth,
     wrap_x |-> b.wrap_x, wrap_y |-> b.wrap_y, invert_y |-> b.invert_y,
     data |-> IF Len(b.data) = 0
              THEN Repeat(b.bg_color, b.width * b.height)
              ELSE b.data,
     zbuf |-> Repeat(NEG_INFINITY, b.width * b.height)]

\* A builder configured by a chain of setters.
Configured(h, w, cd, wx, wy, iy, bg) ==
    [PpmBuilder_new(h, w, cd) EXCEPT !.wrap_x = wx, !.wrap_y = wy,
                                     !.invert_y = iy, !.bg_color = bg]

\* Spec starts from a Ppm built under any flags and fill colour.
Init ==
    /\ pc = "ppm"
    /\ builder = NoBuilder
    /\ \E d \in Dims, cd \in ColorDepths, wx \in BOOLEAN, wy \in BOOLEAN,
          iy \in BOOLEAN, bg \in Colors :
           img = build(Configured(d[2], d[1], cd, wx, wy, iy, bg))
    /\ turtle = NoTurtle
    /\ call = Called("build")
    /\ given = NoGiven
    /\ best = BestOf(img)
    /\ out = <<>>
    /\ ret = NoRet
    /\ world = NoWorld

\* SpecBuild starts from a fresh builder.
InitBuild ==
    /\ pc = "builder"
    /\ \E d \in Dims, cd \in ColorDepths :
           /\ builder = PpmBuilder_new(d[2], d[1], cd)
           /\ given = [NoGiven EXCEPT !.height = d[2], !.width = d[1],
                                      !.color_depth = cd]
    /\ img = NoImg
    /\ turtle = NoTurtle
    /\ call = Called("new")
    /\ best = NoBest
    /\ out = <<>>
    /\ ret = NoRet
    /\ world = NoWorld

SetWrapX(b) ==
    /\ pc = "builder"
    /\ builder' = [builder EXCEPT !.wrap_x = b]
    /\ given' = [given EXCEPT !.wrap_x = b]
    /\ call' = Called("wrap_x")
    /\ UNCHANGED <<pc, img, turtle, best, out, ret, world>>

SetWrapY(b) ==
    /\ pc = "builder"
    /\ builder' = [builder EXCEPT !.wrap_y = b]
    /\ given' = [given EXCEPT !.wrap_y = b]
    /\ call' = Called("wrap_y")
    /\ UNCHANGED <<pc, img, turtle, best, out, ret, world>>

SetInvertY(b) ==
    /\ pc = "builder"
    /\ builder' = [builder EXCEPT !.invert_y = b]
    /\ given' = [given EXCEPT !.invert_y = b]
    /\ call' = Called("invert_y")
    /\ UNCHANGED <<pc, img, turtle, best, out, ret, world>>

SetBgColor(c) ==
    /\ pc = "builder"
    /\ builder' = [builder EXCEPT !.bg_color = c]
    /\ given' = [given EXCEPT !.bg_color = c]
    /\ call' = Called("bg_color")
    /\ UNCHANGED <<pc, img, turtle, best, out, ret, world>>

WithData(d) ==
    /\ pc = "builder"
    /\ builder' = [builder EXCEPT !.data = d]
    /\ given' = [given EXCEPT !.has_data = TRUE, !.data = d]
    /\ call' = Called("with_data")
    /\ UNCHANGED <<pc, img, turtle, best, out, ret, world>>

Build ==
    /\ pc = "builder"
    /\ img' = build(builder)
    /\ best' = BestOf(img')
    /\ builder' = NoBuilder
    /\ pc' = "ppm"
    /\ call' = Called("build")
    /\ UNCHANGED <<turtle, given, out, ret, world>>

\* ------------------------------------------------------------------- Ppm
\* i64: the least and the greatest value, and + without overflow checks.
I64_MIN == 0 - 2 ^ (IntBits - 1)
I64_MAX == 2 ^ (IntBits - 1) - 1
wrapping_add(a, b) == ((a + b - I64_MIN) % (2 ^ IntBits)) + I64_MIN

\* wrap_index with the + of a build without overflow checks.
wrap_index(value, limit) ==
    TruncRem(wrapping_add(TruncRem(value, limit), limit), limit)

\* The + of wrap_index leaves i64: a build with overflow checks panics there.
wrap_index_overflows(value, limit) ==
    TruncRem(value, limit) + limit > I64_MAX

\* index with the upper bound of x tested by > instead of >=.
index_x_inclusive(p, x, y) ==
    IF \/ (~p.wrap_x /\ (x < 0 \/ x > p.width))
       \/ (~p.wrap_y /\ (y < 0 \/ y >= p.height))
    THEN None
    ELSE LET xw == wrap_index(x, p.width)
             yw == wrap_index(y, p.height)
             yi == IF p.invert_y THEN p.width - yw - 1 ELSE yw
             i == yi * p.width + xw
         IN  IF i >= 0 THEN Some(i) ELSE None

\* Ppm::index
index(p, x, y) ==
    IF \/ (~p.wrap_x /\ (x < 0 \/ x >= p.width))
       \/ (~p.wrap_y /\ (y < 0 \/ y >= p.height))
    THEN None
    ELSE LET xw == wrap_index(x, p.width)
             yw == wrap_index(y, p.height)
             yi == IF p.invert_y THEN p.width - yw - 1 ELSE yw
             i == yi * p.width + xw
         IN  IF i >= 0 THEN Some(i) ELSE None

\* plot that also writes when z equals the stored depth.
plot_not_below(p, x, y, z, color) ==
    LET r == index(p, x, y) IN
    IF ~r.some THEN [img |-> p, panic |-> FALSE]
    ELSE IF r.v >= Len(p.zbuf) THEN [img |-> p, panic |-> TRUE]
    ELSE IF FLt(z, p.zbuf[r.v + 1]) THEN [img |-> p, panic |-> FALSE]
    ELSE IF r.v >= Len(p.data) THEN [img |-> p, panic |-> TRUE]
    ELSE [img |-> [p EXCEPT !.data[r.v + 1] = color, !.zbuf[r.v + 1] = z],
          panic |-> FALSE]

\* Ppm::plot as a function of the buffer: the buffer afterwards, and whether
\* an indexing of zbuf or of data was out of range.
plot(p, x, y, z, color) ==
    LET r == index(p, x, y) IN
    IF ~r.some THEN [img |-> p, panic |-> FALSE]
    ELSE IF r.v >= Len(p.zbuf) THEN [img |-> p, panic |-> TRUE]
    ELSE IF ~FLt(p.zbuf[r.v + 1], z) THEN [img |-> p, panic |-> FALSE]
    ELSE IF r.v >= Len(p.data) THEN [img |-> p, panic |-> TRUE]
    ELSE [img |-> [p EXCEPT !.data[r.v + 1] = color, !.zbuf[r.v + 1] = z],
          panic |-> FALSE]

\* Ppm::clear
clear(p, color) ==
    [p EXCEPT !.data = Repeat(color, Len(p.data)),
              !.zbuf = Repeat(NEG_INFINITY, p.height * p.width)]

\* The greater of two depths, the earlier one when neither is above the other.
FMax(a, b) == IF FLt(a, b) THEN b ELSE a

\* best after one more plot of (z, color) whose point resolved to r: the entry
\* r.v takes the greater depth, and the colour that came with it.
Seen(b, r, z, color) ==
    IF ~r.some \/ r.v >= Len(b.z) THEN b
    ELSE LET i == r.v + 1
             m == FMax(b.z[i], z) IN
         [z |-> [b.z EXCEPT ![i] = m],
          color |-> IF m # b.z[i] /\ i <= Len(b.color)
                    THEN [b.color EXCEPT ![i] = color]
                    ELSE b.color]

Plot(x, y, z, color) ==
    /\ pc = "ppm"
    /\ LET r == plot(img, x, y, z, color) IN
         /\ img' = r.img
         /\ pc' = IF r.panic THEN "panic" ELSE "ppm"
    /\ best' = Seen(best, index(img, x, y), z, color)
    /\ call' = Call("plot", x, y, z, color, index(img, x, y), 1)
    /\ UNCHANGED <<builder, turtle, given, out, ret, world>>

Clear(color) ==
    /\ pc = "ppm"
    /\ img' = clear(img, color)
    /\ best' = BestOf(img')
    /\ call' = Call("clear", 0, 0, NEG_INFINITY, color, None, 0)
    /\ UNCHANGED <<pc, builder, turtle, given, out, ret, world>>

\* Pixel vectors a caller may hand to with_data.
DataChoices == UNION {[1..n -> Colors] : n \in 0..MaxData}

\* Plot arguments: one step outside the buffer on every side.
XArgs == -1..MaxCells
YArgs == -1..MaxCells

\* ---------------------------------------------------------------- Screen
\* Coordinates are f64 in the source; the model keeps the integral ones, and
\* headings that are whole quarter turns, where sine and cosine are taken at
\* their exact values -1, 0 and 1.
CosDeg(d) ==
    LET m == d % 360 IN
    CASE m = 0 -> 1 [] m = 90 -> 0 [] m = 180 -> -1 [] OTHER -> 0
SinDeg(d) ==
    LET m == d % 360 IN
    CASE m = 0 -> 0 [] m = 90 -> 1 [] m = 180 -> 0 [] OTHER -> -1

\* util::polar_to_xy
polar_to_xy(mag, angle_degrees) ==
    <<CosDeg(angle_degrees) * mag, SinDeg(angle_degrees) * mag>>

\* draw_line that plots its first point and returns.
draw_line_first_point(p, p0, p1, color) ==
    [img |-> plot(p, p0[1], p0[2], p0[3], color).img, panic |-> FALSE,
     nplot |-> 1]

\* Screen::draw_line on the buffer p: todo!() panics before anything else.
draw_line(p, p0, p1, color) ==
    [img |-> p, panic |-> TRUE, nplot |-> 0]

Positions == (0 - MaxPos)..MaxPos
Points == Positions \X Positions
Angles == {90 * k : k \in (0 - MaxQuarter)..MaxQuarter}

DrawLine(p0, p1, color) ==
    /\ pc = "ppm"
    /\ LET r == draw_line(img, <<p0[1], p0[2], Fin(0)>>,
                          <<p1[1], p1[2], Fin(0)>>, color) IN
         /\ img' = r.img
         /\ pc' = IF r.panic THEN "panic" ELSE "ppm"
         /\ call' = LineCall("draw_line", p0, p1, color, r.nplot)
    /\ UNCHANGED <<builder, turtle, given, best, out, ret, world>>

DrawLineDegrees(p0, angle_degrees, mag, color) ==
    /\ pc = "ppm"
    /\ LET d == polar_to_xy(mag, angle_degrees)
           p1 == <<p0[1] + d[1], p0[2] + d[2]>>
           r == draw_line(img, <<p0[1], p0[2], Fin(0)>>,
                          <<p1[1], p1[2], Fin(0)>>, color) IN
         /\ img' = r.img
         /\ pc' = IF r.panic THEN "panic" ELSE "ppm"
         /\ call' = LineCall("draw_line_degrees", p0, p1, color, r.nplot)
    /\ UNCHANGED <<builder, turtle, given, best, out, ret, world>>

\* ---------------------------------------------------------------- Turtle
Turtle_new(x, y, fg_color) ==
    [x |-> x, y |-> y, direction |-> 0, pen_down |-> FALSE,
     fg_color |-> fg_color]

TurtleNew(x, y, fg_color) ==
    /\ pc = "ppm"
    /\ turtle' = Turtle_new(x, y, fg_color)
    /\ pc' = "turtle"
    /\ call' = Call("new", x, y, Fin(0), fg_color, None, 0)
    /\ UNCHANGED <<builder, img, given, best, out, ret, world>>

\* turtle.pen_down = b, an assignment to the public field
SetPenDown(b) ==
    /\ pc = "turtle"
    /\ turtle' = [turtle EXCEPT !.pen_down = b]
    /\ call' = Called("set_pen_down")
    /\ UNCHANGED <<pc, builder, img, given, best, out, ret, world>>

\* The line a turtle move draws when the pen is down.
PenLine(p0, p1) ==
    IF turtle.pen_down
    THEN draw_line(img, <<p0[1], p0[2], Fin(0)>>, <<p1[1], p1[2], Fin(0)>>,
                   turtle.fg_color)
    ELSE [img |-> img, panic |-> FALSE, nplot |-> 0]

\* forward that draws whatever the pen state.
Forward_pen_ignored(steps) ==
    /\ pc = "turtle"
    /\ LET p0 == <<turtle.x, turtle.y>>
           d == polar_to_xy(steps, turtle.direction)
           p1 == <<p0[1] + d[1], p0[2] + d[2]>>
           r == draw_line(img, <<p0[1], p0[2], Fin(0)>>,
                          <<p1[1], p1[2], Fin(0)>>, turtle.fg_color) IN
         /\ p1 \in Points
         /\ img' = r.img
         /\ pc' = IF r.panic THEN "panic" ELSE "turtle"
         /\ turtle' = IF r.panic THEN turtle
                      ELSE [turtle EXCEPT !.x = p1[1], !.y = p1[2]]
         /\ call' = [LineCall("forward", p0, p1, turtle.fg_color, r.nplot)
                        EXCEPT !.x = steps, !.y = 0]
    /\ UNCHANGED <<builder, given, best, out, ret, world>>

Forward(steps) ==
    /\ pc = "turtle"
    /\ LET p0 == <<turtle.x, turtle.y>>
           d == polar_to_xy(steps, turtle.direction)
           p1 == <<p0[1] + d[1], p0[2] + d[2]>>
           r == PenLine(p0, p1) IN
         /\ p1 \in Points
         /\ img' = r.img
         /\ pc' = IF r.panic THEN "panic" ELSE "turtle"
         /\ turtle' = IF r.panic THEN turtle
                      ELSE [turtle EXCEPT !.x = p1[1], !.y = p1[2]]
         /\ call' = [LineCall("forward", p0, p1, turtle.fg_color, r.nplot)
                        EXCEPT !.x = steps, !.y = 0]
    /\ UNCHANGED <<builder, given, best, out, ret, world>>

\* turn_right with a remainder that is never negative.
turn_right_floored(t, angle_deg) ==
    [t EXCEPT !.direction = (t.direction + angle_deg) % 360]

\* Turtle::turn_right on the turtle t; f64 % is the truncated remainder.
turn_right(t, angle_deg) ==
    [t EXCEPT !.direction = TruncRem(t.direction + angle_deg, 360)]

\* Turtle::turn_left
turn_left(t, angle_deg) == turn_right(t, 0 - angle_deg)

TurnRight(angle_deg) ==
    /\ pc = "turtle"
    /\ turtle' = turn_right(turtle, angle_deg)
    /\ call' = Call("turn_right", angle_deg, 0, Fin(0), BLACK, None, 0)
    /\ UNCHANGED <<pc, builder, img, given, best, out, ret, world>>

TurnLeft(angle_deg) ==
    /\ pc = "turtle"
    /\ turtle' = turn_left(turtle, angle_deg)
    /\ call' = Call("turn_left", angle_deg, 0, Fin(0), BLACK, None, 0)
    /\ UNCHANGED <<pc, builder, img, given, best, out, ret, world>>

MoveTo(x, y) ==
    /\ pc = "turtle"
    /\ LET r == PenLine(<<turtle.x, turtle.y>>, <<x, y>>) IN
         /\ img' = r.img
         /\ pc' = IF r.panic THEN "panic" ELSE "turtle"
         /\ turtle' = IF r.panic THEN turtle
                      ELSE [turtle EXCEPT !.x = x, !.y = y]
         /\ call' = LineCall("move_to", <<x, y>>, <<x, y>>, turtle.fg_color,
                             r.nplot)
    /\ UNCHANGED <<builder, given, best, out, ret, world>>

\* Turtle::get_screen: the turtle is consumed, the caller owns the Ppm again.
GetScreen ==
    /\ pc = "turtle"
    /\ pc' = "ppm"
    /\ turtle' = NoTurtle
    /\ call' = Called("get_screen")
    /\ UNCHANGED <<builder, img, given, best, out, ret, world>>

\* SpecTurtle starts from a Ppm built with the builder's defaults.
InitTurtle ==
    /\ pc = "ppm"
    /\ builder = NoBuilder
    /\ \E d \in Dims, cd \in ColorDepths :
           img = build(PpmBuilder_new(d[2], d[1], cd))
    /\ turtle = NoTurtle
    /\ call = Called("build")
    /\ given = NoGiven
    /\ best = BestOf(img)
    /\ out = <<>>
    /\ ret = NoRet
    /\ world = NoWorld

NextTurtle ==
    \/ \E p0 \in Points, p1 \in Points, c \in Colors : DrawLine(p0, p1, c)
    \/ \E p0 \in Points, a \in Angles, m \in 1..MaxSteps, c \in Colors :
           DrawLineDegrees(p0, a, m, c)
    \/ \E p \in Points, c \in Colors : TurtleNew(p[1], p[2], c)
    \/ \E b \in BOOLEAN : SetPenDown(b)
    \/ \E n \in 1..MaxSteps : Forward(n)
    \/ \E a \in Angles : TurnRight(a)
    \/ \E a \in Angles : TurnLeft(a)
    \/ \E p \in Points : MoveTo(p[1], p[2])
    \/ GetScreen

SpecTurtle == InitTurtle /\ [][NextTurtle]_vars

PlotAny ==
    \E x \in XArgs, y \in YArgs, z \in ZVals, c \in Colors :
        /\ x <= img.width
        /\ y <= img.height
        /\ Plot(x, y, z, c)

ClearAny == \E c \in Colors : Clear(c)

Next ==
    \/ PlotAny
    \/ ClearAny

Spec == Init /\ [][Next]_vars

\* After build(), SpecBuild plots inside the buffer at one finite depth.
NextBuild ==
    \/ \E b \in BOOLEAN : SetWrapX(b)
    \/ \E b \in BOOLEAN : SetWrapY(b)
    \/ \E b \in BOOLEAN : SetInvertY(b)
    \/ \E c \in Colors : SetBgColor(c)
    \/ \E d \in DataChoices : WithData(d)
    \/ Build
    \/ \E x \in 0..(img.width - 1), y \in 0..(img.height - 1), c \in Colors :
           Plot(x, y, Fin(1), c)
    \/ ClearAny

SpecBuild == InitBuild /\ [][NextBuild]_vars

\* --------------------------------------------------------- serialization
\* color::Rgb::new
Rgb_new(red, green, blue) == [red |-> red, green |-> green, blue |-> blue]

\* The pixels the writers are run on: channels below 256, at 255 and above.
SampleColors == {BLACK, Rgb_new(1, 2, 3), Rgb_new(258, 255, 65535)}
\* color_depth on both sides of the writer's test `< 256`.
WriterDepths == {255, 256, 65535}
WriterData == UNION {[1..n -> SampleColors] : n \in 0..MaxData}

\* Display of an unsigned integer ("{}"): its decimal digits as ASCII bytes.
RECURSIVE Decimal(_)
Decimal(n) ==
    IF n < 10 THEN <<48 + n>>
    ELSE Append(Decimal(n \div 10), 48 + (n % 10))

\* writeln!(w, "{} {} {}", a, b, c): three numbers, spaces between, newline.
Line3(a, b, c) ==
    Decimal(a) \o <<32>> \o Decimal(b) \o <<32>> \o Decimal(c) \o <<10>>

\* The concatenation of a sequence of byte sequences.
RECURSIVE Flatten(_)
Flatten(ss) == IF Len(ss) = 0 THEN <<>> ELSE Head(ss) \o Flatten(Tail(ss))

\* u16::to_be_bytes
to_be_bytes(n) == <<n \div 256, n % 256>>

\* A u16 channel as the one byte the color_depth < 256 branch writes for it.
\* The branch hands [t.red, t.green, t.blue] to write_all, which takes bytes:
\* a byte keeps the low eight bits of the channel.
as_u8(n) == n % 256

\* A binary writer that puts two bytes per channel whatever color_depth is.
write_binary_two_bytes(p) ==
    <<80, 54, 10>> \o Line3(p.width, p.height, p.color_depth)
    \o Flatten([i \in 1..Len(p.data) |->
                   to_be_bytes(p.data[i].red) \o to_be_bytes(p.data[i].green)
                   \o to_be_bytes(p.data[i].blue)])

\* Ppm::write_binary_nobuffer: the bytes the writer receives.
write_binary_nobuffer(p) ==
    <<80, 54, 10>> \o Line3(p.width, p.height, p.color_depth)
    \o Flatten([i \in 1..Len(p.data) |->
                   IF p.color_depth < 256
                   THEN <<as_u8(p.data[i].red), as_u8(p.data[i].green),
                          as_u8(p.data[i].blue)>>
                   ELSE to_be_bytes(p.data[i].red)
                        \o to_be_bytes(p.data[i].green)
                        \o to_be_bytes(p.data[i].blue)])

\* Ppm::write_binary_to_buf: the same bytes through a BufWriter.
write_binary_to_buf(p) == write_binary_nobuffer(p)

\* Ppm::write_ascii_to_buf
write_ascii_to_buf(p) ==
    <<80, 51, 10>> \o Line3(p.width, p.height, p.color_depth)
    \o Flatten([i \in 1..Len(p.data) |->
                   Line3(p.data[i].red, p.data[i].green, p.data[i].blue)])

\* write_binary_to_buf into a Vec<u8>, a writer that never fails.
WriteBinary ==
    /\ pc = "ppm"
    /\ out' = write_binary_to_buf(img)
    /\ ret' = Ok
    /\ call' = Called("write_binary")
    /\ UNCHANGED <<pc, builder, img, turtle, given, best, world>>

\* write_ascii_to_buf into a Vec<u8>
WriteAscii ==
    /\ pc = "ppm"
    /\ out' = write_ascii_to_buf(img)
    /\ ret' = Ok
    /\ call' = Called("write_ascii")
    /\ UNCHANGED <<pc, builder, img, turtle, given, best, world>>

\* ------------------------------------------------------- save and display
\* What the operating system does to one save or display: the step that
\* fails, if any (nothing after it is attempted), and the exit code the tool
\* ends with if it is waited for.
SaveEnvs == [fail : {"none", "spawn", "write", "wait"}, code : {0, 1}]
DisplayEnvs == [fail : {"none", "create", "write", "spawn", "wait", "remove"},
                code : {0, 1}]

\* save that takes any exit status for success.
save_status_ignored(p, w, e) ==
    LET w0 == [NoWorld EXCEPT !.tmp = w.tmp] IN
    CASE e.fail = "spawn" ->
           [ret |-> Err, out |-> <<>>, world |-> [w0 EXCEPT !.spawn = "fail"]]
      [] e.fail = "write" ->
           [ret |-> Err, out |-> <<>>,
            world |-> [w0 EXCEPT !.spawn = "ok", !.write = "fail"]]
      [] e.fail = "wait" ->
           [ret |-> Err, out |-> write_binary_to_buf(p),
            world |-> [w0 EXCEPT !.spawn = "ok", !.write = "ok",
                                 !.wait = "fail"]]
      [] OTHER ->
           [ret |-> Ok, out |-> write_binary_to_buf(p),
            world |-> [w0 EXCEPT !.spawn = "ok", !.write = "ok",
                                 !.wait = "ok", !.code = e.code]]

\* Ppm::save with magick::pipe_to_magick, on the buffer p in the world w: what
\* it returns, the bytes the tool received in full (none when the write
\* failed part-way) and the world afterwards.
save(p, w, e) ==
    LET w0 == [NoWorld EXCEPT !.tmp = w.tmp] IN
    CASE e.fail = "spawn" ->
           [ret |-> Err, out |-> <<>>, world |-> [w0 EXCEPT !.spawn = "fail"]]
      [] e.fail = "write" ->
           [ret |-> Err, out |-> <<>>,
            world |-> [w0 EXCEPT !.spawn = "ok", !.write = "fail"]]
      [] e.fail = "wait" ->
           [ret |-> Err, out |-> write_binary_to_buf(p),
            world |-> [w0 EXCEPT !.spawn = "ok", !.write = "ok",
                                 !.wait = "fail"]]
      [] OTHER ->
           [ret |-> IF e.code = 0 THEN Ok ELSE Err,
            out |-> write_binary_to_buf(p),
            world |-> [w0 EXCEPT !.spawn = "ok", !.write = "ok",
                                 !.wait = "ok", !.code = e.code]]

\* display_ppm that returns an error for a non-zero exit status before it
\* removes the file.
display_ppm_status_first(p, w, e) ==
    LET w0 == [NoWorld EXCEPT !.tmp = w.tmp]
        w1 == [w0 EXCEPT !.tmp = TRUE, !.create = "ok"]
        w2 == [w1 EXCEPT !.write = "ok"]
        w3 == [w2 EXCEPT !.spawn = "ok"]
        w4 == [w3 EXCEPT !.wait = "ok", !.code = e.code]
        enc == write_binary_to_buf(p)
    IN
    CASE e.fail = "create" ->
           [ret |-> Err, panic |-> FALSE, out |-> <<>>,
            world |-> [w0 EXCEPT !.create = "fail"]]
      [] e.fail = "write" ->
           [ret |-> Err, panic |-> FALSE, out |-> <<>>,
            world |-> [w1 EXCEPT !.write = "fail"]]
      [] e.fail = "spawn" ->
           [ret |-> NoRet, panic |-> TRUE, out |-> enc,
            world |-> [w2 EXCEPT !.spawn = "fail"]]
      [] e.fail = "wait" ->
           [ret |-> NoRet, panic |-> TRUE, out |-> enc,
            world |-> [w3 EXCEPT !.wait = "fail"]]
      [] e.fail \in {"remove", "none"} /\ e.code # 0 ->
           [ret |-> Err, panic |-> FALSE, out |-> enc, world |-> w4]
      [] e.fail = "remove" /\ e.code = 0 ->
           [ret |-> Err, panic |-> FALSE, out |-> enc,
            world |-> [w4 EXCEPT !.remove = "fail"]]
      [] OTHER ->
           [ret |-> Ok, panic |-> FALSE, out |-> enc,
            world |-> [w4 EXCEPT !.tmp = FALSE, !.remove = "ok"]]

\* magick::display_ppm on the buffer p in the world w.  File::create leaves
\* tmp.ppm in place; spawn() and wait() are unwrapped, so their failure is a
\* panic; the exit status is bound to _result and not looked at.
display_ppm(p, w, e) ==
    LET w0 == [NoWorld EXCEPT !.tmp = w.tmp]
        w1 == [w0 EXCEPT !.tmp = TRUE, !.create = "ok"]
        w2 == [w1 EXCEPT !.write = "ok"]
        w3 == [w2 EXCEPT !.spawn = "ok"]
        w4 == [w3 EXCEPT !.wait = "ok", !.code = e.code]
        enc == write_binary_to_buf(p)
    IN
    CASE e.fail = "create" ->
           [ret |-> Err, panic |-> FALSE, out |-> <<>>,
            world |-> [w0 EXCEPT !.create = "fail"]]
      [] e.fail = "write" ->
           [ret |-> Err, panic |-> FALSE, out |-> <<>>,
            world |-> [w1 EXCEPT !.write = "fail"]]
      [] e.fail = "spawn" ->
           [ret |-> NoRet, panic |-> TRUE, out |-> enc,
            world |-> [w2 EXCEPT !.spawn = "fail"]]
      [] e.fail = "wait" ->
           [ret |-> NoRet, panic |-> TRUE, out |-> enc,
            world |-> [w3 EXCEPT !.wait = "fail"]]
      [] e.fail = "remove" ->
           [ret |-> Err, panic |-> FALSE, out |-> enc,
            world |-> [w4 EXCEPT !.remove = "fail"]]
      [] OTHER ->
           [ret |-> Ok, panic |-> FALSE, out |-> enc,
            world |-> [w4 EXCEPT !.tmp = FALSE, !.remove = "ok"]]

Save(e) ==
    /\ pc = "ppm"
    /\ LET r == save(img, world, e) IN
         /\ ret' = r.ret
         /\ out' = r.out
         /\ world' = r.world
    /\ call' = Called("save")
    /\ UNCHANGED <<pc, builder, img, turtle, given, best>>

\* Ppm::display
Display(e) ==
    /\ pc = "ppm"
    /\ LET r == display_ppm(img, world, e) IN
         /\ ret' = r.ret
         /\ out' = r.out
         /\ world' = r.world
         /\ pc' = IF r.panic THEN "panic" ELSE "ppm"
    /\ call' = Called("display")
    /\ UNCHANGED <<builder, img, turtle, given, best>>

\* SpecIO starts from a Ppm built with any pixel vector, or with none.
InitIO ==
    /\ pc = "ppm"
    /\ builder = NoBuilder
    /\ \E d \in Dims, cd \in WriterDepths, data \in WriterData :
           img = build([PpmBuilder_new(d[2], d[1], cd) EXCEPT !.data = data])
    /\ turtle = NoTurtle
    /\ call = Called("build")
    /\ given = NoGiven
    /\ best = BestOf(img)
    /\ out = <<>>
    /\ ret = NoRet
    /\ world = NoWorld

NextIO ==
    \/ WriteBinary
    \/ WriteAscii
    \/ \E e \in SaveEnvs : Save(e)
    \/ \E e \in DisplayEnvs : Display(e)

SpecIO == InitIO /\ [][NextIO]_vars

\* ----------------------------------------------------- wrap_index alone
\* tests::old_wrap_index
old_wrap_index(value, limit) ==
    IF value >= limit THEN TruncRem(value, limit)
    ELSE IF value < 0
         THEN LET r == TruncRem(value, limit) IN
              IF r # 0 THEN r + limit ELSE r
         ELSE value

\* One call of wrap_index, in a build with overflow checks or without: with
\* them an overflowing + panics.
WrapIndex(value, limit, checks) ==
    /\ pc = "test"
    /\ IF checks /\ wrap_index_overflows(value, limit)
       THEN /\ pc' = "panic"
            /\ ret' = NoRet
       ELSE /\ pc' = "test"
            /\ ret' = Val(wrap_index(value, limit))
    /\ call' = Call("wrap_index", value, limit, NEG_INFINITY, BLACK, None, 0)
    /\ UNCHANGED <<builder, img, turtle, given, best, out, world>>

\* SpecWrap calls wrap_index as its unit test does.
InitWrap ==
    /\ pc = "test"
    /\ builder = NoBuilder
    /\ img = NoImg
    /\ turtle = NoTurtle
    /\ call = Called("test_wrap_index")
    /\ given = NoGiven
    /\ best = NoBest
    /\ out = <<>>
    /\ ret = NoRet
    /\ world = NoWorld

NextWrap ==
    \E value \in I64_MIN..I64_MAX, limit \in 1..I64_MAX, checks \in BOOLEAN :
        WrapIndex(value, limit, checks)

SpecWrap == InitWrap /\ [][NextWrap]_vars

\* ------------------------------------------------------------ properties
Abs(n) == IF n < 0 THEN 0 - n ELSE n
Max(a, b) == IF a >= b THEN a ELSE b

\* (x, y) fails the bounds check of p: an axis that does not wrap is left.
OutOfBounds(p, x, y) ==
    \/ (~p.wrap_x /\ (x < 0 \/ x >= p.width))
    \/ (~p.wrap_y /\ (y < 0 \/ y >= p.height))

\* v brought into 0 .. limit - 1 by floored modulo.
Floored(v, limit) == v % limit

\* The row-major index of (x, y) in p, y counted from the bottom row when
\* invert_y is set.
RowMajor(p, x, y) ==
    LET yw == Floored(y, p.height)
        yi == IF p.invert_y THEN p.height - yw - 1 ELSE yw
    IN  yi * p.width + Floored(x, p.width)

\* C1: a plot at a point that fails the bounds check (an axis without
\* wrapping is left) changes no pixel and no depth entry, and returns.
C1_OutOfBoundsNoOp ==
    [][(call'.op = "plot" /\ OutOfBounds(img, call'.x, call'.y))
          => (img' = img /\ pc' = "ppm")]_vars

\* An out-of-bounds plot has been made on a buffer that holds a plotted pixel.
C1_Witness ==
    /\ pc = "ppm"
    /\ call.op = "plot"
    /\ OutOfBounds(img, call.x, call.y)
    /\ \E i \in 1..Len(img.zbuf) : img.zbuf[i] # NEG_INFINITY

\* C2: a plot that resolves to index i writes the colour to pixels[i] and z
\* to depth[i] exactly when z is strictly above the depth stored at i, and
\* otherwise leaves both unchanged.
C2_DepthTest ==
    [][(call'.op = "plot" /\ call'.idx.some)
          => LET i == call'.idx.v IN
             /\ i < Len(img.zbuf)
             /\ i < Len(img.data)
             /\ IF FLt(img.zbuf[i + 1], call'.z)
                THEN /\ pc' = "ppm"
                     /\ img'.data[i + 1] = call'.color
                     /\ img'.zbuf[i + 1] = call'.z
                ELSE img' = img]_vars

\* C3: every point that passes the bounds check resolves to the row-major
\* index y' * width + x', y' counted from the last row when invert_y is set.
C3_RowMajorIndex ==
    (call.op = "plot" /\ ~OutOfBounds(img, call.x, call.y))
        => call.idx = Some(RowMajor(img, call.x, call.y))

\* C4: plot returns normally, and an index it resolves is below width*height.
C4_PlotNeverPanics ==
    call.op = "plot"
        => /\ pc # "panic"
           /\ call.idx.some => call.idx.v < img.width * img.height

\* C5: the pixel vector and the depth vector both have width*height entries.
C5_LengthsAgree ==
    pc \in {"ppm", "panic"}
        => /\ Len(img.data) = Len(img.zbuf)
           /\ Len(img.zbuf) = img.width * img.height

\* C6: clear(color) leaves every pixel at color and every depth at negative
\* infinity, and the next plot with a finite z that resolves writes its colour.
C6_ClearResets ==
    [][/\ call'.op = "clear"
          => /\ \A i \in 1..Len(img'.data) : img'.data[i] = call'.color
             /\ \A i \in 1..Len(img'.zbuf) : img'.zbuf[i] = NEG_INFINITY
       /\ (call.op = "clear" /\ call'.op = "plot" /\ call'.idx.some
             /\ call'.z.k = "fin")
          => /\ pc' = "ppm"
             /\ call'.idx.v < Len(img'.data)
             /\ img'.data[call'.idx.v + 1] = call'.color]_vars

\* C7: draw_line plots max(|dx|, |dy|) + 1 points and returns.
C7_LinePlotCount ==
    call.op = "draw_line"
        => /\ pc # "panic"
           /\ call.nplot = Max(Abs(call.x1 - call.x), Abs(call.y1 - call.y)) + 1

\* C8: every draw_line, called directly, through draw_line_degrees or by a
\* turtle move with the pen down, panics with no plot issued and the buffer
\* and the turtle as they were.
C8_DrawLineAborts ==
    [][(\/ call'.op \in {"draw_line", "draw_line_degrees"}
        \/ (call'.op \in {"forward", "move_to"} /\ turtle.pen_down))
          => /\ pc' = "panic"
             /\ call'.nplot = 0
             /\ img' = img
             /\ turtle' = turtle]_vars

\* A turtle with the pen down has moved forward and the program has panicked.
C8_Witness ==
    /\ pc = "panic"
    /\ call.op = "forward"
    /\ turtle.pen_down

\* C9: forward and move_to always move the turtle to the new point, and draw
\* the line from the old point exactly when the pen is down.
C9_MoveAlwaysUpdates ==
    [][/\ call'.op = "forward"
          => LET d == polar_to_xy(call'.x, turtle.direction) IN
             /\ pc' = "turtle"
             /\ turtle'.x = turtle.x + d[1]
             /\ turtle'.y = turtle.y + d[2]
       /\ call'.op = "move_to"
          => /\ pc' = "turtle"
             /\ turtle'.x = call'.x
             /\ turtle'.y = call'.y]_vars

\* C10: a new turtle has the pen up and heading 0 and holds the screen it was
\* given; with the pen up, forward, move_to, turn_right, turn_left and
\* get_screen return and leave every pixel and depth entry as it was.
C10_PenUpKeepsScreen ==
    [][/\ call'.op = "new"
          => /\ ~turtle'.pen_down
             /\ turtle'.direction = 0
             /\ img' = img
       /\ (/\ pc = "turtle"
           /\ ~turtle.pen_down
           /\ call'.op \in {"forward", "move_to", "turn_right", "turn_left",
                            "get_screen"})
          => /\ img' = img
             /\ pc' # "panic"]_vars

\* A turtle with the pen up has moved forward away from where it was created.
C10_Witness ==
    /\ pc = "turtle"
    /\ call.op = "forward"
    /\ ~turtle.pen_down
    /\ <<turtle.x, turtle.y>> = <<call.x1, call.y1>>

\* ------------------------------------------------ the format, read back
\* The byte at position i of s, -1 past its end.
At(s, i) == IF i >= 1 /\ i <= Len(s) THEN s[i] ELSE 0 - 1
IsDigit(b) == b >= 48 /\ b <= 57

\* The decimal number that starts at position i of s, and where it ends.
RECURSIVE ReadDec(_, _, _)
ReadDec(s, i, acc) ==
    IF IsDigit(At(s, i)) THEN ReadDec(s, i + 1, acc * 10 + At(s, i) - 48)
    ELSE [v |-> acc, next |-> i]

\* The two header lines: the magic line, then "<width> <height> <maxval>".
Header(s, magic) ==
    LET a == ReadDec(s, 4, 0)
        b == ReadDec(s, a.next + 1, 0)
        c == ReadDec(s, b.next + 1, 0)
    IN  [ok |-> /\ <<At(s, 1), At(s, 2), At(s, 3)>> = magic
                /\ a.next > 4 /\ At(s, a.next) = 32
                /\ b.next > a.next + 1 /\ At(s, b.next) = 32
                /\ c.next > b.next + 1 /\ At(s, c.next) = 10,
         width |-> a.v, height |-> b.v, color_depth |-> c.v,
         start |-> c.next + 1]

\* What a reader hands back: the image, or nothing for a malformed stream.
Unreadable == [ok |-> FALSE, width |-> 0, height |-> 0, color_depth |-> 0,
               data |-> <<>>]
Readable(p) == [ok |-> TRUE, width |-> p.width, height |-> p.height,
                color_depth |-> p.color_depth, data |-> p.data]

\* The sample of n bytes at position o, most significant byte first.
SampleAt(s, o, n) ==
    IF n = 1 THEN At(s, o) ELSE At(s, o) * 256 + At(s, o + 1)

\* A P6 reader: width*height pixels of three samples, one byte a sample when
\* maxval is below 256 and two otherwise, and nothing after them.
decode_binary(s) ==
    LET h == Header(s, <<80, 54, 10>>)
        n == IF h.color_depth < 256 THEN 1 ELSE 2
        at(i, j) == SampleAt(s, h.start + (3 * (i - 1) + j) * n, n)
    IN  IF h.ok /\ Len(s) = h.start - 1 + 3 * n * h.width * h.height
        THEN [ok |-> TRUE, width |-> h.width, height |-> h.height,
              color_depth |-> h.color_depth,
              data |-> [i \in 1..(h.width * h.height) |->
                           [red |-> at(i, 0), green |-> at(i, 1),
                            blue |-> at(i, 2)]]]
        ELSE Unreadable

\* n decimal numbers from position i of s, each followed by a space or a
\* newline.
RECURSIVE ReadNumbers(_, _, _)
ReadNumbers(s, i, n) ==
    IF n = 0 THEN [ok |-> TRUE, vals |-> <<>>, next |-> i]
    ELSE LET d == ReadDec(s, i, 0) IN
         IF d.next = i \/ At(s, d.next) \notin {32, 10}
         THEN [ok |-> FALSE, vals |-> <<>>, next |-> i]
         ELSE LET r == ReadNumbers(s, d.next + 1, n - 1) IN
              [ok |-> r.ok, vals |-> <<d.v>> \o r.vals, next |-> r.next]

\* A P3 reader: width*height pixels of three decimal samples, nothing after.
decode_ascii(s) ==
    LET h == Header(s, <<80, 51, 10>>)
        r == ReadNumbers(s, h.start, 3 * h.width * h.height)
    IN  IF h.ok /\ r.ok /\ r.next = Len(s) + 1
        THEN [ok |-> TRUE, width |-> h.width, height |-> h.height,
              color_depth |-> h.color_depth,
              data |-> [i \in 1..(h.width * h.height) |->
                           [red |-> r.vals[3 * i - 2],
                            green |-> r.vals[3 * i - 1],
                            blue |-> r.vals[3 * i]]]]
        ELSE Unreadable

\* C11: the binary encoding is the line "P6", the line "<width> <height>
\* <color_depth>" and then the pixels in storage order and nothing else: 3
\* bytes a pixel (R, G, B) when color_depth is below 256, 6 bytes (two a
\* channel, big-endian) otherwise, 3 or 6 times width*height bytes in all.
C11_BinaryEncoding ==
    call.op = "write_binary"
        => LET h == Header(out, <<80, 54, 10>>)
               n == IF img.color_depth < 256 THEN 1 ELSE 2
           IN  /\ h.ok
               /\ h.width = img.width
               /\ h.height = img.height
               /\ h.color_depth = img.color_depth
               /\ Len(out) = h.start - 1 + 3 * n * img.width * img.height
               /\ \A i \in 1..Len(img.data) :
                    LET o == h.start + 3 * (i - 1) * n
                        px == img.data[i] IN
                    IF n = 1
                    THEN /\ px.red < 256 => At(out, o) = px.red
                         /\ px.green < 256 => At(out, o + 1) = px.green
                         /\ px.blue < 256 => At(out, o + 2) = px.blue
                    ELSE /\ SampleAt(out, o, 2) = px.red
                         /\ SampleAt(out, o + 2, 2) = px.green
                         /\ SampleAt(out, o + 4, 2) = px.blue

\* C12: reading back what the binary writer or the ASCII writer wrote gives
\* the width, height, color_depth and every channel value of the Ppm,
\* whatever they are.
C12_RoundTrip ==
    /\ call.op = "write_binary" => decode_binary(out) = Readable(img)
    /\ call.op = "write_ascii" => decode_ascii(out) = Readable(img)

\* C13: save returns Ok exactly when the conversion process was spawned, got
\* the binary encoding, and exited with status 0; it returns an error when a
\* step fails or the status is not 0; it never panics and never changes the
\* framebuffer.
C13_SaveResult ==
    [][call'.op = "save"
          => /\ pc' = "ppm"
             /\ img' = img
             /\ ret' \in {Ok, Err}
             /\ ret' = Ok <=> /\ world'.spawn = "ok"
                              /\ world'.write = "ok"
                              /\ out' = write_binary_to_buf(img)
                              /\ world'.wait = "ok"
                              /\ world'.code = 0
             /\ (world'.spawn = "fail" \/ world'.write = "fail"
                   \/ world'.wait = "fail" \/ world'.code # 0)
                  => ret' = Err]_vars

\* A save has failed on the exit status alone, after the tool got the bytes.
C13_Witness ==
    /\ call.op = "save"
    /\ world.wait = "ok"
    /\ world.code # 0
    /\ ret = Err
    /\ out = write_binary_to_buf(img)

\* C14 as claimed: once the display tool has exited, tmp.ppm is gone when
\* display returns, whatever the exit status.
C14_TempFileDeleted ==
    (call.op = "display" /\ world.wait = "ok") => (pc = "ppm" /\ ~world.tmp)

\* C14: once the display tool has exited, display tries to remove tmp.ppm
\* before it returns, whatever the exit status; the file is gone and display
\* returns Ok, unless the removal fails, and then display returns that error.
C14_TempFileRemovalTried ==
    (call.op = "display" /\ world.wait = "ok")
        => /\ pc = "ppm"
           /\ world.remove \in {"ok", "fail"}
           /\ world.remove = "ok" => (~world.tmp /\ ret = Ok)
           /\ world.remove = "fail" => ret = Err

\* The display tool has exited with a non-zero status and tmp.ppm is removed.
C14_Witness ==
    /\ call.op = "display"
    /\ world.wait = "ok"
    /\ world.code # 0
    /\ world.remove = "ok"
    /\ ~world.tmp

\* C15: display never panics; whichever of its steps fails (create or write
\* tmp.ppm, spawn the tool, wait for it, remove tmp.ppm), it returns an error.
C15_DisplayFailuresReturned ==
    call.op = "display"
        => /\ pc = "ppm"
           /\ ret \in {Ok, Err}
           /\ ("fail" \in {world.create, world.write, world.spawn,
                           world.wait, world.remove}) => ret = Err

C17_WrapIndexFloored ==
    call.op = "wrap_index"
        => LET value == call.x
               limit == call.y IN
           /\ pc = "test"
           /\ ret = Val(Floored(value, limit))
           /\ 0 <= ret.v /\ ret.v < limit
           /\ (value - ret.v) % limit = 0
           /\ ret.v = old_wrap_index(value, limit)
           /\ \A k \in {0 - 1, 1} :
                (value + k * limit) \in I64_MIN..I64_MAX
                   => wrap_index(value + k * limit, limit) = ret.v

\* C18: after a plot, every depth entry holds the greatest z plotted there
\* since the buffer was built or cleared (negative infinity if none) and is
\* not below what it held before, and every pixel holds the colour of the
\* first plot that reached that z (the fill colour if none).
C18_DepthIsMaxOfPlots ==
    [][call'.op = "plot"
          => /\ img'.zbuf = best'.z
             /\ img'.data = best'.color
             /\ \A i \in 1..Len(img.zbuf) :
                    ~FLt(img'.zbuf[i], img.zbuf[i])]_vars

\* A second plot at the depth already stored has left the first one's colour.
C18_Witness ==
    /\ pc = "ppm"
    /\ call.op = "plot"
    /\ call.idx.some
    /\ call.idx.v < Len(img.zbuf)
    /\ img.zbuf[call.idx.v + 1] = call.z
    /\ img.data[call.idx.v + 1] # call.color

\* C19: turn_right(a) leaves the heading at the truncated remainder of
\* (heading + a) by 360, turn_left(a) does what turn_right(-a) does, the
\* heading is strictly between -360 and 360 afterwards, and position, pen,
\* colour and framebuffer are as before.
C19_TurnHeading ==
    [][call'.op \in {"turn_right", "turn_left"}
          => LET a == IF call'.op = "turn_right" THEN call'.x
                      ELSE 0 - call'.x
                 s == turtle.direction + a
                 r == turtle'.direction IN
             /\ (s - r) % 360 = 0
             /\ Abs(r) < 360
             /\ s >= 0 => r >= 0
             /\ s <= 0 => r <= 0
             /\ turtle' = [turtle EXCEPT !.direction = r]
             /\ img' = img
             /\ pc' = "turtle"]_vars

\* A left turn has left a negative heading.
C19_Witness ==
    /\ pc = "turtle"
    /\ call.op = "turn_left"
    /\ turtle.direction < 0
====
